---- MODULE Spec2Model ----
(***************************************************************************)
(* SeleniumMiddleware (scrapy_selenium/middlewares.py): a Scrapy           *)
(* downloader middleware that owns one selenium WebDriver, serves          *)
(* SeleniumRequests through it and quits it on the spider_closed signal.   *)
(*                                                                         *)
(* Python values are modelled as follows.  An optional value (a setting    *)
(* that may be None, an optional request field, a key of the meta dict     *)
(* that may be missing) is a sequence: <<>> for None/missing, <<v>> for v. *)
(* A str is a TLA+ string, except a page source, which is a sequence of    *)
(* Unicode code points so that str.encode can be computed.  bytes are      *)
(* sequences of numbers 0..255.                                            *)
(***************************************************************************)
EXTENDS Integers, Sequences, FiniteSets, TLC

VARIABLES
    settings,   \* crawler.settings: the SELENIUM_* keys
    mw,         \* the middleware: construction outcome, self.driver, hook
    launches,   \* the driver constructor calls made by __init__, in order
    files,      \* the working directory: proxy_auth_plugin.zip, if written
    drivers,    \* the browser sessions created so far (the handle is the index)
    closed,     \* spider_closed notifications delivered so far
    calls,      \* per caller, the frame of its process_request call
    out         \* what the last finished process_request call handed back

vars == <<settings, mw, launches, files, drivers, closed, calls, out>>

None == <<>>
Some(v) == <<v>>

\* Python truthiness of an optional str: None and '' are falsy.
TruthyStr(m) == m # None /\ m[1] # ""
\* Python truthiness of an optional bool.
TruthyBool(m) == m # None /\ m[1]

(***************************************************************************)
(* Bounds of the model.                                                    *)
(***************************************************************************)
\* spider_closed notifications the environment delivers at most
MaxClosed == 2

(***************************************************************************)
(* crawler.settings                                                        *)
(***************************************************************************)
DriverNames == {None, Some("chrome"), Some("nosuchbrowser")}
\* selenium.webdriver.<name>.webdriver / .options can be imported
SupportedNames == {"chrome"}

AllSettings ==
    [ SELENIUM_DRIVER_NAME : DriverNames,
      SELENIUM_DRIVER_EXECUTABLE_PATH : {None, Some("/bin/chromedriver")},
      SELENIUM_BROWSER_EXECUTABLE_PATH : {None, Some("/bin/chrome")},
      SELENIUM_COMMAND_EXECUTOR : {None, Some("http://hub:4444/wd/hub")},
      SELENIUM_DRIVER_ARGUMENTS : {None, Some(<<>>), Some(<<"--headless">>)},
      SELENIUM_PROXY_ENABLED : {None, Some(FALSE), Some(TRUE)},
      SELENIUM_PROXY_HOST : {Some("proxy.test")},
      SELENIUM_PROXY_PORT : {Some("3128")},
      SELENIUM_PROXY_USER : {Some("user")},
      SELENIUM_PROXY_PASS : {Some("secret")} ]

\* The settings of the request-processing specifications: the chrome
\* driver with one argument, over the launch strategies (local, remote,
\* proxy with and without a remote endpoint) and one rejected configuration.
CoreSettings ==
    { s \in AllSettings :
        /\ s.SELENIUM_DRIVER_NAME = Some("chrome")
        /\ s.SELENIUM_BROWSER_EXECUTABLE_PATH = None
        /\ s.SELENIUM_DRIVER_ARGUMENTS = Some(<<"--headless">>)
        /\ s.SELENIUM_PROXY_ENABLED \in {None, Some(TRUE)}
        /\ (s.SELENIUM_DRIVER_EXECUTABLE_PATH = None
              => s.SELENIUM_PROXY_ENABLED = None) }

(***************************************************************************)
(* from_crawler and __init__                                               *)
(***************************************************************************)
NoError == ""
MsgDriverName == "SELENIUM_DRIVER_NAME must be set"
MsgLaunch == "Either SELENIUM_DRIVER_EXECUTABLE_PATH or SELENIUM_COMMAND_EXECUTOR must be set"

\* the launch check with `or` for `and`
NotConfiguredErrorEither(s) ==
    IF s.SELENIUM_DRIVER_NAME = None THEN MsgDriverName
    ELSE IF s.SELENIUM_DRIVER_EXECUTABLE_PATH = None
            \/ s.SELENIUM_COMMAND_EXECUTOR = None THEN MsgLaunch
    ELSE NoError

\* from_crawler's validation: the NotConfigured message, NoError if none.
NotConfiguredError(s) ==
    IF s.SELENIUM_DRIVER_NAME = None THEN MsgDriverName
    ELSE IF s.SELENIUM_DRIVER_EXECUTABLE_PATH = None
            /\ s.SELENIUM_COMMAND_EXECUTOR = None THEN MsgLaunch
    ELSE NoError

\* '%s' % value
FormatS(m) == IF m = None THEN "None" ELSE m[1]

ManifestJson == "manifest"
\* background_js: the template with its four %s filled in
BackgroundJs(s) ==
    [ host |-> FormatS(s.SELENIUM_PROXY_HOST),
      port |-> FormatS(s.SELENIUM_PROXY_PORT),
      username |-> FormatS(s.SELENIUM_PROXY_USER),
      password |-> FormatS(s.SELENIUM_PROXY_PASS) ]

PluginFile == "proxy_auth_plugin.zip"
\* what zipfile.ZipFile(plugin_file, 'w') leaves on disk
PluginZip(s) ==
    << [name |-> "manifest.json", data |-> Some(ManifestJson)],
       [name |-> "background.js", data |-> Some(BackgroundJs(s))] >>
NoFile == <<>>

\* driver_options after binary_location and add_argument
BaseOptions(s) ==
    [ binary_location |->
          IF TruthyStr(s.SELENIUM_BROWSER_EXECUTABLE_PATH)
          THEN s.SELENIUM_BROWSER_EXECUTABLE_PATH ELSE None,
      arguments |-> s.SELENIUM_DRIVER_ARGUMENTS[1],
      extensions |-> <<>> ]

\* the local branch tested before the proxy branch
LaunchStrategyLocalFirst(s) ==
    IF s.SELENIUM_DRIVER_EXECUTABLE_PATH # None THEN "local"
    ELSE IF TruthyBool(s.SELENIUM_PROXY_ENABLED) THEN "proxy"
    ELSE IF s.SELENIUM_COMMAND_EXECUTOR # None THEN "remote"
    ELSE "none"

\* the branch __init__ takes: "proxy", "local", "remote", or "none" when
\* no branch is taken and self.driver is left unset
LaunchStrategy(s) ==
    IF TruthyBool(s.SELENIUM_PROXY_ENABLED) THEN "proxy"
    ELSE IF s.SELENIUM_DRIVER_EXECUTABLE_PATH # None THEN "local"
    ELSE IF s.SELENIUM_COMMAND_EXECUTOR # None THEN "remote"
    ELSE "none"

\* the constructor call of the branch taken
LaunchCall(s) ==
    LET st == LaunchStrategy(s) IN
    [ strategy |-> st,
      executable_path |->
          IF st = "remote" THEN None ELSE s.SELENIUM_DRIVER_EXECUTABLE_PATH,
      command_executor |->
          IF st = "remote" THEN s.SELENIUM_COMMAND_EXECUTOR ELSE None,
      options |->
          IF st = "proxy"
          THEN [BaseOptions(s) EXCEPT !.extensions = <<PluginFile>>]
          ELSE BaseOptions(s) ]

\* a newly started browser session
NewDriver ==
    [ live |-> TRUE, quits |-> 0, current_url |-> "data:,",
      page_source |-> <<>>, cookies |-> {} ]

NoDriver == 0

MwInit == [phase |-> "unbuilt", error |-> NoError, driver |-> NoDriver, hook |-> FALSE]

\* __init__ (lines 54-147) for settings that passed from_crawler's checks.
\* `launched` is whether the driver constructor returns a session.
Construct(s, launched) ==
    IF s.SELENIUM_DRIVER_NAME[1] \notin SupportedNames
    THEN \* import_module raises
         /\ mw' = [mw EXCEPT !.phase = "ImportError"]
         /\ UNCHANGED <<launches, files, drivers>>
    ELSE IF s.SELENIUM_DRIVER_ARGUMENTS = None
    THEN \* for argument in None
         /\ mw' = [mw EXCEPT !.phase = "TypeError"]
         /\ UNCHANGED <<launches, files, drivers>>
    ELSE LET st == LaunchStrategy(s) IN
         /\ files' = IF st = "proxy" THEN PluginZip(s) ELSE files
         /\ launches' = IF st = "none" THEN launches
                        ELSE Append(launches, LaunchCall(s))
         /\ IF st = "none"
            THEN \* self.driver is never assigned
                 /\ mw' = [mw EXCEPT !.phase = "constructed", !.hook = TRUE]
                 /\ UNCHANGED drivers
            ELSE IF launched
            THEN /\ drivers' = Append(drivers, NewDriver)
                 /\ mw' = [mw EXCEPT !.phase = "constructed", !.hook = TRUE,
                                     !.driver = Len(drivers) + 1]
            ELSE \* the constructor raises a WebDriverException
                 /\ mw' = [mw EXCEPT !.phase = "WebDriverException"]
                 /\ UNCHANGED drivers

\* SeleniumMiddleware.from_crawler(crawler)
FromCrawler ==
    /\ mw.phase = "unbuilt"
    /\ LET err == NotConfiguredError(settings) IN
       IF err # NoError
       THEN /\ mw' = [mw EXCEPT !.phase = "NotConfigured", !.error = err]
            /\ UNCHANGED <<launches, files, drivers>>
       ELSE \E launched \in BOOLEAN : Construct(settings, launched)
    /\ UNCHANGED <<settings, closed, calls, out>>

\* quit() that leaves the session running
QuitNothing(d) == d

\* driver.quit()
Quit(d) == [d EXCEPT !.live = FALSE, !.quits = @ + 1]

\* SeleniumMiddleware.spider_closed(), run when the crawler sends the
\* spider_closed signal the middleware was connected to.
SpiderClosed ==
    /\ mw.hook
    /\ mw.driver # NoDriver
    /\ closed < MaxClosed
    /\ closed' = closed + 1
    /\ drivers' = [drivers EXCEPT ![mw.driver] = Quit(@)]
    /\ UNCHANGED <<settings, mw, launches, files, calls, out>>

(***************************************************************************)
(* The browser behind a driver handle                                      *)
(***************************************************************************)
UrlA == "http://a.test/"
UrlB == "http://b.test/"
UrlC == "http://c.test/"
UrlU == "http://u.test/"

\* where the site sends the browser: b redirects to c
Redirect(url) == IF url = UrlB THEN UrlC ELSE url

\* the markup the site serves, as code points: ASCII at a; two-, three- and
\* four-byte characters at c; a lone surrogate at u
Source(url) ==
    IF url = UrlA THEN <<60, 97, 62>>
    ELSE IF url = UrlC THEN <<233, 8364, 128512>>
    ELSE IF url = UrlU THEN <<60, 55357>>
    ELSE <<>>

ScriptAppend == "document.body.append('!')"

\* a navigation that leaves the browser where it was
GetStale(d, url) == d

\* driver.get(url)
Get(d, url) ==
    [d EXCEPT !.current_url = Redirect(url), !.page_source = Source(Redirect(url))]

\* driver.add_cookie({'name': name, 'value': value}): the cookie is stored
\* for the page the browser is on, replacing one of the same name there
AddCookie(d, name, value) ==
    [d EXCEPT !.cookies =
        {k \in @ : ~(k.domain = d.current_url /\ k.name = name)}
        \cup {[domain |-> d.current_url, name |-> name, value |-> value]}]

\* driver.execute_script(script)
ExecuteScript(d, script) ==
    IF script = ScriptAppend
    THEN [d EXCEPT !.page_source = Append(@, 33)]
    ELSE d

PngSignature == <<137, 80, 78, 71>>
\* driver.get_screenshot_as_png(): the rendering of the current page
GetScreenshotAsPng(d) ==
    PngSignature \o [i \in 1..Len(d.page_source) |-> d.page_source[i] % 256]

\* whether a command sent to the session can succeed: a session that was
\* quit answers every command with an error, a live one may still fail
CommandOutcomes(d) == IF d.live THEN {TRUE, FALSE} ELSE {FALSE}

(***************************************************************************)
(* str.encode(): UTF-8, errors='strict'                                    *)
(***************************************************************************)
IsSurrogate(cp) == cp >= 55296 /\ cp <= 57343

Utf8Char(cp) ==
    IF cp < 128 THEN <<cp>>
    ELSE IF cp < 2048 THEN <<192 + (cp \div 64), 128 + (cp % 64)>>
    ELSE IF cp < 65536
    THEN <<224 + (cp \div 4096), 128 + ((cp \div 64) % 64), 128 + (cp % 64)>>
    ELSE <<240 + (cp \div 262144), 128 + ((cp \div 4096) % 64),
           128 + ((cp \div 64) % 64), 128 + (cp % 64)>>

RECURSIVE StrEncode(_)
StrEncode(s) ==
    IF s = <<>> THEN <<>> ELSE Utf8Char(Head(s)) \o StrEncode(Tail(s))

\* str.encode raises UnicodeEncodeError on a lone surrogate
Encodable(s) == \A i \in 1..Len(s) : ~IsSurrogate(s[i])

(***************************************************************************)
(* Requests                                                                *)
(***************************************************************************)
NoMeta == [screenshot |-> None, driver |-> None]
OldShot == <<1, 2, 3>>

\* The requests the framework may pass to process_request.  `selenium` is
\* isinstance(request, SeleniumRequest); wait_time counts poll intervals of
\* WebDriverWait; a wait_until names the condition object.  The condition
\* "falsy_never_true" is a callable object that returns False and whose own
\* truth value (__bool__) is False.
RequestPool ==
    << [selenium |-> FALSE, url |-> UrlA, cookies |-> << <<"sid", "0">> >>,
        wait_time |-> 0, wait_until |-> None, screenshot |-> FALSE,
        script |-> None, meta |-> NoMeta],
       [selenium |-> TRUE, url |-> UrlA, cookies |-> <<>>,
        wait_time |-> 1, wait_until |-> None, screenshot |-> FALSE,
        script |-> None, meta |-> NoMeta],
       [selenium |-> TRUE, url |-> UrlB, cookies |-> << <<"sid", "1">> >>,
        wait_time |-> 1, wait_until |-> Some("never"), screenshot |-> TRUE,
        script |-> Some(ScriptAppend), meta |-> NoMeta],
       [selenium |-> TRUE, url |-> UrlB,
        cookies |-> << <<"sid", "2">>, <<"lang", "en">> >>,
        wait_time |-> 0, wait_until |-> Some("always"), screenshot |-> TRUE,
        script |-> Some(ScriptAppend),
        meta |-> [screenshot |-> Some(OldShot), driver |-> None]],
       [selenium |-> TRUE, url |-> UrlA, cookies |-> << <<"sid", "3">> >>,
        wait_time |-> 0, wait_until |-> None, screenshot |-> FALSE,
        script |-> Some(""),
        meta |-> [screenshot |-> Some(OldShot), driver |-> None]],
       [selenium |-> TRUE, url |-> UrlU, cookies |-> <<>>,
        wait_time |-> 1, wait_until |-> None, screenshot |-> FALSE,
        script |-> None, meta |-> NoMeta],
       [selenium |-> TRUE, url |-> UrlA, cookies |-> <<>>,
        wait_time |-> 1, wait_until |-> Some("url_to_be_c"), screenshot |-> FALSE,
        script |-> Some(ScriptAppend), meta |-> NoMeta],
       [selenium |-> TRUE, url |-> UrlA, cookies |-> <<>>,
        wait_time |-> 1, wait_until |-> Some("falsy_never_true"),
        screenshot |-> FALSE, script |-> None, meta |-> NoMeta] >>

Pool == 1..Len(RequestPool)

\* the type check dropped: every request is taken for a SeleniumRequest
IsSeleniumRequestAny(r) == TRUE

\* isinstance(request, SeleniumRequest)
IsSeleniumRequest(r) == r.selenium

\* the condition objects whose truth value is False
FalsyConditions == {"falsy_never_true"}

\* the truth value of request.wait_until in `if request.wait_until:`, line
\* 202: None is falsy, and so is a condition object that says so itself
TruthyCondition(m) == m # None /\ m[1] \notin FalsyConditions

\* request.wait_until(driver)
Condition(w, d) ==
    IF w = "always" THEN TRUE
    ELSE IF w = "url_to_be_c" THEN d.current_url = UrlC
    ELSE FALSE

(***************************************************************************)
(* process_request                                                         *)
(***************************************************************************)
NoResult == [kind |-> "", url |-> "", body |-> <<>>, encoding |-> "", request |-> 0]
\* return None
ReturnNone == [NoResult EXCEPT !.kind = "None"]
\* an exception leaving process_request
Raise(kind) == [NoResult EXCEPT !.kind = kind]
\* HtmlResponse(url, body=body, encoding=encoding, request=request)
HtmlResponse(url, body, encoding, request) ==
    [kind |-> "HtmlResponse", url |-> url, body |-> body,
     encoding |-> encoding, request |-> request]

\* A call's frame: where it is (pc), the request object (req) and its fields
\* (p, an index of RequestPool), the request's meta dict, the loop index over
\* request.cookies, the polls WebDriverWait has slept through, the local
\* `body`; `log` is the driver interactions and meta writes made so far and
\* `overlap` whether another call was in progress during this one.
IdleFrame ==
    [pc |-> "idle", req |-> 0, p |-> 0, meta |-> NoMeta, i |-> 0, polls |-> 0,
     body |-> <<>>, log |-> <<>>, overlap |-> FALSE]

NoOut ==
    [req |-> 0, p |-> 0, meta |-> NoMeta, log |-> <<>>, overlap |-> FALSE,
     result |-> NoResult]

Active(c) == calls[c].pc # "idle"
Quiescent == \A c \in DOMAIN calls : ~Active(c)

\* the identity of a request object not referred to by any frame or result
FreshReq ==
    LET used == {calls[c].req : c \in DOMAIN calls} \cup {out.req}
    IN CHOOSE n \in 1..(Cardinality(used) + 1) :
           n \notin used /\ \A m \in 1..(n - 1) : m \in used

Logged(f, op, val) == [f EXCEPT !.log = Append(@, [op |-> op, val |-> val])]

\* the call goes on with frame f
Continue(c, f) ==
    /\ calls' = [calls EXCEPT ![c] = f]
    /\ UNCHANGED out

\* the call ends, handing `result` to the framework
Finish(c, f, result) ==
    /\ calls' = [calls EXCEPT ![c] = IdleFrame]
    /\ out' = [req |-> f.req, p |-> f.p, meta |-> f.meta, log |-> f.log,
               overlap |-> f.overlap, result |-> result]

\* the script tested before the screenshot
AfterWaitScriptFirst(r) ==
    IF TruthyStr(r.script) THEN "execute_script"
    ELSE IF r.screenshot THEN "screenshot" ELSE "page_source"

\* The statement reached after each step (lines 194-213): the for loop over
\* request.cookies and the three `if`s.
AfterScript(r) == "page_source"
AfterScreenshot(r) == IF TruthyStr(r.script) THEN "execute_script" ELSE AfterScript(r)
AfterWait(r) == IF r.screenshot THEN "screenshot" ELSE AfterScreenshot(r)
AfterCookies(r) == IF TruthyCondition(r.wait_until) THEN "wait" ELSE AfterWait(r)
AfterCookie(r, i) == IF i < Len(r.cookies) THEN "add_cookie" ELSE AfterCookies(r)
AfterGet(r) == AfterCookie(r, 0)

\* the driver entry written into meta as the call starts
StartFrameEagerMeta(n) ==
    [IdleFrame EXCEPT !.pc = "get", !.req = FreshReq, !.p = n,
                      !.meta = [RequestPool[n].meta EXCEPT !.driver = Some(mw.driver)],
                      !.overlap = ~Quiescent]

\* the frame of a call that has passed the isinstance check
StartFrame(n) ==
    [IdleFrame EXCEPT !.pc = "get", !.req = FreshReq, !.p = n,
                      !.meta = RequestPool[n].meta,
                      !.overlap = ~Quiescent]

\* self.driver.get(request.url), line 192
DriverGet(c, n) ==
    LET r == RequestPool[n]
        f == Logged(StartFrame(n), "get", <<r.url>>)
    IN IF mw.driver = NoDriver
       THEN /\ Finish(c, StartFrame(n), Raise("AttributeError"))
            /\ UNCHANGED drivers
       ELSE \E ok \in CommandOutcomes(drivers[mw.driver]) :
            IF ok
            THEN /\ drivers' = [drivers EXCEPT ![mw.driver] = Get(@, r.url)]
                 /\ calls' = [o \in DOMAIN calls |->
                                IF o = c THEN [f EXCEPT !.pc = AfterGet(r)]
                                ELSE IF Active(o) THEN [calls[o] EXCEPT !.overlap = TRUE]
                                ELSE calls[o]]
                 /\ out' = NoOut
            ELSE /\ Finish(c, f, Raise("WebDriverException"))
                 /\ UNCHANGED drivers

\* process_request(request, spider) up to its first driver command:
\* lines 189-192
ProcessRequest(c, n) ==
    /\ mw.phase = "constructed"
    /\ ~Active(c)
    /\ IF ~IsSeleniumRequest(RequestPool[n])
       THEN /\ out' = [NoOut EXCEPT !.req = FreshReq, !.p = n,
                                    !.meta = RequestPool[n].meta,
                                    !.result = ReturnNone]
            /\ UNCHANGED <<calls, drivers>>
       ELSE DriverGet(c, n)
    /\ UNCHANGED <<settings, mw, launches, files, closed>>

\* one self.driver.add_cookie(...) of the loop, lines 194-200
AddCookieStep(c) ==
    /\ calls[c].pc = "add_cookie"
    /\ LET f0 == calls[c]
           r == RequestPool[f0.p]
           ck == r.cookies[f0.i + 1]
           f == Logged(f0, "add_cookie", ck)
       IN \E ok \in CommandOutcomes(drivers[mw.driver]) :
          IF ok
          THEN /\ drivers' = [drivers EXCEPT ![mw.driver] = AddCookie(@, ck[1], ck[2])]
               /\ Continue(c, [f EXCEPT !.i = f0.i + 1, !.pc = AfterCookie(r, f0.i + 1)])
          ELSE /\ Finish(c, f, Raise("WebDriverException"))
               /\ UNCHANGED drivers
    /\ UNCHANGED <<settings, mw, launches, files, closed>>

\* whether evaluating the condition sends a command to the session
UsesDriver(w) == w = "url_to_be_c"

\* One evaluation of the condition by WebDriverWait(...).until(...), lines
\* 202-205: until() returns when the condition holds, sleeps one poll
\* interval and tries again while wait_time has not passed, and raises
\* TimeoutException after that.
WaitPoll(c) ==
    /\ calls[c].pc = "wait"
    /\ LET f0 == calls[c]
           r == RequestPool[f0.p]
           w == r.wait_until[1]
           d == drivers[mw.driver]
           f == IF f0.polls = 0 THEN Logged(f0, "wait", <<w>>) ELSE f0
       IN \E ok \in (IF UsesDriver(w) THEN CommandOutcomes(d) ELSE {TRUE}) :
          IF ~ok THEN Finish(c, f, Raise("WebDriverException"))
          ELSE IF Condition(w, d) THEN Continue(c, [f EXCEPT !.pc = AfterWait(r)])
          ELSE IF f0.polls < r.wait_time THEN Continue(c, [f EXCEPT !.polls = @ + 1])
          ELSE Finish(c, f, Raise("TimeoutException"))
    /\ UNCHANGED <<settings, mw, launches, files, closed, drivers>>

\* request.meta['screenshot'] = self.driver.get_screenshot_as_png(), line 208
ScreenshotStep(c) ==
    /\ calls[c].pc = "screenshot"
    /\ LET f0 == calls[c]
           r == RequestPool[f0.p]
           d == drivers[mw.driver]
           png == GetScreenshotAsPng(d)
       IN \E ok \in CommandOutcomes(d) :
          IF ok
          THEN Continue(c, [Logged(f0, "screenshot", png) EXCEPT
                               !.meta.screenshot = Some(png),
                               !.pc = AfterScreenshot(r)])
          ELSE Finish(c, Logged(f0, "screenshot", <<>>), Raise("WebDriverException"))
    /\ UNCHANGED <<settings, mw, launches, files, closed, drivers>>

\* self.driver.execute_script(request.script), line 211
ScriptStep(c) ==
    /\ calls[c].pc = "execute_script"
    /\ LET f0 == calls[c]
           r == RequestPool[f0.p]
           f == Logged(f0, "execute_script", r.script)
       IN \E ok \in CommandOutcomes(drivers[mw.driver]) :
          IF ok
          THEN /\ drivers' = [drivers EXCEPT ![mw.driver] = ExecuteScript(@, r.script[1])]
               /\ Continue(c, [f EXCEPT !.pc = AfterScript(r)])
          ELSE /\ Finish(c, f, Raise("WebDriverException"))
               /\ UNCHANGED drivers
    /\ UNCHANGED <<settings, mw, launches, files, closed>>

\* body = str.encode(self.driver.page_source), line 213
PageSourceStep(c) ==
    /\ calls[c].pc = "page_source"
    /\ LET f0 == calls[c]
           d == drivers[mw.driver]
           f == Logged(f0, "page_source", d.page_source)
       IN \E ok \in CommandOutcomes(d) :
          IF ~ok THEN Finish(c, Logged(f0, "page_source", <<>>), Raise("WebDriverException"))
          ELSE IF ~Encodable(d.page_source) THEN Finish(c, f, Raise("UnicodeEncodeError"))
          ELSE Continue(c, [f EXCEPT !.body = StrEncode(d.page_source), !.pc = "respond"])
    /\ UNCHANGED <<settings, mw, launches, files, closed, drivers>>

\* the meta update left out
MetaUpdateSkipped(f) == Logged(f, "meta_driver", <<mw.driver>>)

\* request.meta.update({'driver': self.driver}), line 216
MetaUpdate(f) == [Logged(f, "meta_driver", <<mw.driver>>) EXCEPT !.meta.driver = Some(mw.driver)]

\* the response built from the request's URL instead of the browser's
ResponseRequestUrl(d, f) == HtmlResponse(RequestPool[f.p].url, f.body, "utf-8", f.req)

\* the response of lines 218-223, given the session as current_url is read
Response(d, f) == HtmlResponse(d.current_url, f.body, "utf-8", f.req)

\* lines 216-223: the meta update, then the response built from
\* self.driver.current_url
RespondStep(c) ==
    /\ calls[c].pc = "respond"
    /\ LET d == drivers[mw.driver]
           f == MetaUpdate(calls[c])
       IN \E ok \in CommandOutcomes(d) :
          IF ok
          THEN Finish(c, Logged(f, "current_url", <<d.current_url>>), Response(d, f))
          ELSE Finish(c, Logged(f, "current_url", <<>>), Raise("WebDriverException"))
    /\ UNCHANGED <<settings, mw, launches, files, closed, drivers>>

(***************************************************************************)
(* Specifications                                                          *)
(***************************************************************************)
InitWith(S, callers) ==
    /\ settings \in S
    /\ mw = MwInit
    /\ launches = <<>>
    /\ files = NoFile
    /\ drivers = <<>>
    /\ closed = 0
    /\ calls = [c \in callers |-> IdleFrame]
    /\ out = NoOut

\* the steps of process_request calls on requests drawn from pool P
Steps(P) ==
    \/ \E c \in DOMAIN calls, n \in P : ProcessRequest(c, n)
    \/ \E c \in DOMAIN calls : AddCookieStep(c)
    \/ \E c \in DOMAIN calls : WaitPoll(c)
    \/ \E c \in DOMAIN calls : ScreenshotStep(c)
    \/ \E c \in DOMAIN calls : ScriptStep(c)
    \/ \E c \in DOMAIN calls : PageSourceStep(c)
    \/ \E c \in DOMAIN calls : RespondStep(c)

\* The framework as Scrapy runs it: one process_request call at a time, and
\* signals delivered between calls.
Init == InitWith(CoreSettings, {"A"})
Next ==
    \/ FromCrawler
    \/ Quiescent /\ SpiderClosed
    \/ Steps(Pool)
Spec == Init /\ [][Next]_vars

\* Two callers whose process_request calls interleave between driver
\* commands, on one configuration and a part of the request pool.
ConcSettings ==
    { s \in CoreSettings :
        /\ s.SELENIUM_DRIVER_EXECUTABLE_PATH # None
        /\ s.SELENIUM_COMMAND_EXECUTOR = None
        /\ s.SELENIUM_PROXY_ENABLED = None }
ConcPool == {1, 2, 4, 7}
InitConc == InitWith(ConcSettings, {"A", "B"})
NextConc ==
    \/ FromCrawler
    \/ Steps(ConcPool)
SpecConc == InitConc /\ [][NextConc]_vars

\* Construction and shutdown over every configuration.
InitCfg == InitWith(AllSettings, {"A"})
NextCfg ==
    \/ FromCrawler
    \/ SpiderClosed
SpecCfg == InitCfg /\ [][NextCfg]_vars

(***************************************************************************)
(* Vocabulary of the properties                                            *)
(***************************************************************************)
\* the request a finished call was about, and whether a call finished
OutReq == RequestPool[out.p]
Returned == out.p # 0
Failures == {"TimeoutException", "WebDriverException", "UnicodeEncodeError",
             "AttributeError"}
Failed == Returned /\ out.result.kind \in Failures
Responded == Returned /\ out.result.kind = "HtmlResponse"

Ops(log) == [i \in 1..Len(log) |-> log[i].op]
Count(log, op) == Cardinality({i \in 1..Len(log) : log[i].op = op})
Entries(log, op) == {i \in 1..Len(log) : log[i].op = op}
IsPrefix(a, b) == Len(a) <= Len(b) /\ \A i \in 1..Len(a) : a[i] = b[i]

\* bytes back to code points
RECURSIVE Utf8Decode(_)
Utf8Decode(b) ==
    IF b = <<>> THEN <<>>
    ELSE IF b[1] < 128 THEN <<b[1]>> \o Utf8Decode(SubSeq(b, 2, Len(b)))
    ELSE IF b[1] < 224
    THEN <<(b[1] - 192) * 64 + (b[2] - 128)>> \o Utf8Decode(SubSeq(b, 3, Len(b)))
    ELSE IF b[1] < 240
    THEN <<(b[1] - 224) * 4096 + (b[2] - 128) * 64 + (b[3] - 128)>>
         \o Utf8Decode(SubSeq(b, 4, Len(b)))
    ELSE <<(b[1] - 240) * 262144 + (b[2] - 128) * 4096 + (b[3] - 128) * 64
           + (b[4] - 128)>> \o Utf8Decode(SubSeq(b, 5, Len(b)))

\* the page a request's own navigation leads to, and its markup once the
\* request's script has run
OwnUrl(r) == IF r.url = UrlB THEN UrlC ELSE r.url
OwnServed(r) ==
    IF r.url = UrlA THEN <<60, 97, 62>>
    ELSE IF r.url = UrlB THEN <<233, 8364, 128512>>
    ELSE <<60, 55357>>
OwnSource(r) ==
    IF r.script = Some(ScriptAppend) THEN OwnServed(r) \o <<33>> ELSE OwnServed(r)
LastOp(log) == IF log = <<>> THEN "" ELSE log[Len(log)].op

\* the configuration, in the words of the settings
Absent(key) == settings[key] = None
ProxyOn == settings.SELENIUM_PROXY_ENABLED = Some(TRUE)
Built == mw.phase = "constructed"
TheDriver == drivers[mw.driver]

(***************************************************************************)
(* C1                                                                      *)
(***************************************************************************)
C1_State ==
    /\ \A c \in DOMAIN calls : Active(c) => RequestPool[calls[c].p].selenium
    /\ (Returned /\ ~OutReq.selenium) =>
          /\ out.result = ReturnNone
          /\ out.log = <<>>
          /\ out.meta = OutReq.meta

C1_Step ==
    \A c \in DOMAIN calls, n \in Pool :
        (ProcessRequest(c, n) /\ ~RequestPool[n].selenium) =>
            /\ out'.p = n /\ out'.result.kind = "None"
            /\ UNCHANGED <<drivers, mw, launches, files, closed, calls, settings>>

\* C1: for a request that is not a SeleniumRequest, process_request returns
\* None, sends no command to the driver (nothing is logged, the browser
\* sessions are unchanged), leaves the request's meta as it was and changes
\* nothing of the middleware, whatever state the middleware is in.
C1_PlainRequestUntouched == [](C1_State) /\ [][C1_Step]_vars

\* a plain request handled while the browser shows an earlier page and the
\* session has already been quit
C1_Witness ==
    /\ Returned /\ ~OutReq.selenium /\ out.result.kind = "None"
    /\ mw.driver # NoDriver
    /\ TheDriver.current_url = UrlC
    /\ ~TheDriver.live

(***************************************************************************)
(* C2                                                                      *)
(***************************************************************************)
LiveHandles == {h \in 1..Len(drivers) : drivers[h].live}

\* C2 as stated: at most one live handle, created once, quit at most once
\* over any sequence of spider_closed notifications.
C2_Original ==
    /\ Cardinality(LiveHandles) <= 1
    /\ Len(drivers) <= 1
    /\ \A h \in 1..Len(drivers) : drivers[h].quits <= 1

C2_State ==
    /\ Cardinality(LiveHandles) <= 1
    /\ Len(drivers) <= 1
    /\ Built => mw.driver = Len(drivers) /\ Len(drivers) = 1
    /\ ~Built => mw.driver = NoDriver /\ drivers = <<>>
    /\ \A h \in 1..Len(drivers) :
          /\ drivers[h].quits = closed
          /\ drivers[h].live <=> closed = 0

C2_Step ==
    /\ Len(drivers') # Len(drivers) =>
          mw.phase = "unbuilt" /\ Built' /\ Quiescent /\ UNCHANGED calls
    /\ Built => mw'.driver = mw.driver
    /\ \A h \in 1..Len(drivers) :
          drivers'[h].quits # drivers[h].quits =>
             closed' = closed + 1 /\ drivers'[h].quits = drivers[h].quits + 1

\* C2 (amended): at most one driver handle is ever live; the handle is
\* created exactly once, by the construction step and never by a
\* process_request step; and it is quit once for each spider_closed
\* notification and at no other step, so exactly once when the notification
\* is delivered exactly once.
C2_OneHandleQuitPerNotification == [](C2_State) /\ [][C2_Step]_vars

\* a request was served, then the shutdown notification quit the driver
C2_Witness ==
    /\ Built /\ closed = 1
    /\ TheDriver.quits = 1 /\ ~TheDriver.live
    /\ Responded

(***************************************************************************)
(* C3                                                                      *)
(***************************************************************************)
\* C3: from_crawler ends in NotConfigured exactly when SELENIUM_DRIVER_NAME
\* is absent or both SELENIUM_DRIVER_EXECUTABLE_PATH and
\* SELENIUM_COMMAND_EXECUTOR are absent, and then no driver was constructed,
\* no launch attempted, no plugin file written and no shutdown hook
\* registered.
C3_NotConfigured ==
    mw.phase # "unbuilt" =>
        /\ mw.phase = "NotConfigured" <=>
              \/ Absent("SELENIUM_DRIVER_NAME")
              \/ /\ Absent("SELENIUM_DRIVER_EXECUTABLE_PATH")
                 /\ Absent("SELENIUM_COMMAND_EXECUTOR")
        /\ mw.error # NoError <=> mw.phase = "NotConfigured"
        /\ mw.error = MsgDriverName <=> Absent("SELENIUM_DRIVER_NAME")
        /\ mw.phase = "NotConfigured" =>
              /\ drivers = <<>> /\ launches = <<>> /\ files = NoFile
              /\ mw.driver = NoDriver /\ ~mw.hook /\ closed = 0

\* a named driver with neither launch strategy, proxy switched on
C3_Witness ==
    /\ mw.phase = "NotConfigured" /\ mw.error = MsgLaunch
    /\ ~Absent("SELENIUM_DRIVER_NAME") /\ ProxyOn
    /\ Absent("SELENIUM_DRIVER_EXECUTABLE_PATH")
    /\ Absent("SELENIUM_COMMAND_EXECUTOR")

(***************************************************************************)
(* C4                                                                      *)
(***************************************************************************)
\* the strategy the claim names for a configuration
ClaimedStrategy ==
    IF ProxyOn THEN "proxy"
    ELSE IF ~Absent("SELENIUM_DRIVER_EXECUTABLE_PATH") THEN "local"
    ELSE "remote"

\* construction got as far as launching a driver (the launch may have raised)
Launching == mw.phase \in {"constructed", "WebDriverException"}

\* C4: when from_crawler accepts the configuration and __init__ gets to
\* launch a driver, exactly one launch runs: the proxy launch (local, with
\* the plugin attached) if proxy mode is on, whatever else is set; else the
\* plain local launch if a driver executable path is given; else the remote
\* launch against the command executor.  The plugin file is on disk only in
\* the first case, and a construction that ends earlier launches nothing.
C4_OneLaunchByPrecedence ==
    /\ Len(launches) <= 1
    /\ files # NoFile => ProxyOn
    /\ Built => Len(drivers) = 1
    /\ ~Launching => launches = <<>> /\ files = NoFile /\ drivers = <<>>
    /\ Launching =>
          /\ Len(launches) = 1
          /\ launches[1].strategy = ClaimedStrategy
          /\ files # NoFile <=> ClaimedStrategy = "proxy"
          /\ ClaimedStrategy = "proxy" =>
                /\ files = PluginZip(settings)
                /\ launches[1].options.extensions = <<PluginFile>>
                /\ launches[1].executable_path = settings.SELENIUM_DRIVER_EXECUTABLE_PATH
                /\ launches[1].command_executor = None
          /\ ClaimedStrategy = "local" =>
                /\ launches[1].options.extensions = <<>>
                /\ launches[1].executable_path = settings.SELENIUM_DRIVER_EXECUTABLE_PATH
                /\ launches[1].command_executor = None
          /\ ClaimedStrategy = "remote" =>
                /\ launches[1].options.extensions = <<>>
                /\ launches[1].executable_path = None
                /\ launches[1].command_executor = settings.SELENIUM_COMMAND_EXECUTOR

\* proxy mode with a local path and a remote endpoint both set
C4_Witness ==
    /\ Built /\ ProxyOn
    /\ ~Absent("SELENIUM_DRIVER_EXECUTABLE_PATH")
    /\ ~Absent("SELENIUM_COMMAND_EXECUTOR")
    /\ launches[1].strategy = "proxy" /\ files # NoFile

(***************************************************************************)
(* C5                                                                      *)
(***************************************************************************)
C5_State ==
    Responded =>
        /\ mw.driver # NoDriver
        /\ out.meta.driver = Some(mw.driver)
        /\ IF OutReq.screenshot
           THEN /\ Count(out.log, "screenshot") = 1
                /\ \A i \in Entries(out.log, "screenshot") :
                      /\ out.meta.screenshot = Some(out.log[i].val)
                      /\ Len(out.log[i].val) > 0
                /\ out.meta.screenshot =
                      Some(GetScreenshotAsPng([page_source |-> OwnServed(OutReq)]))
           ELSE /\ Count(out.log, "screenshot") = 0
                /\ out.meta.screenshot = OutReq.meta.screenshot

C5_Step ==
    (out' # out /\ out'.result.kind = "HtmlResponse") =>
        /\ TheDriver.live
        /\ out'.meta.driver = Some(mw'.driver)

\* C5: when process_request returns a response for a SeleniumRequest, the
\* request's meta holds under `driver` the middleware's own driver handle,
\* live as the call returns; and under `screenshot` it holds the image this
\* call captured from the driver if the request's screenshot flag is set,
\* and otherwise whatever it held before the call.
C5_MetaDriverAndScreenshot == [](C5_State) /\ [][C5_Step]_vars

\* a response for a request whose screenshot flag is set and whose meta held
\* an older screenshot
C5_Witness ==
    /\ Responded /\ OutReq.screenshot
    /\ OutReq.meta.screenshot = Some(OldShot)
    /\ out.meta.screenshot # Some(OldShot)
    /\ out.meta.driver = Some(mw.driver)

(***************************************************************************)
(* C6                                                                      *)
(***************************************************************************)
\* the request's condition cannot hold on the page the request navigates to
NeverTrue(r) ==
    \/ r.wait_until = Some("never")
    \/ r.wait_until = Some("falsy_never_true")
    \/ r.wait_until = Some("url_to_be_c") /\ OwnUrl(r) # UrlC

\* C6: a call on a SeleniumRequest whose wait_until never becomes true
\* returns no response: it ends in TimeoutException (or in the driver's own
\* error, if a command failed first), after one navigation and one wait and
\* with no later step run.  A call on a request without wait_until never
\* waits and never ends in TimeoutException, whatever its wait_time.
C6_WaitTimeout ==
    /\ \A c \in DOMAIN calls :
          (Active(c) /\ RequestPool[calls[c].p].wait_until = None) =>
              calls[c].pc # "wait" /\ Count(calls[c].log, "wait") = 0
    /\ (Returned /\ OutReq.wait_until = None) =>
          /\ Count(out.log, "wait") = 0
          /\ out.result.kind # "TimeoutException"
    /\ (Returned /\ OutReq.selenium /\ NeverTrue(OutReq)) =>
          /\ out.result.kind \in {"TimeoutException", "WebDriverException"}
          /\ Count(out.log, "get") = 1
          /\ Count(out.log, "wait") <= 1
          /\ out.result.kind = "TimeoutException" => LastOp(out.log) = "wait"
          /\ out.result.kind = "WebDriverException" =>
                LastOp(out.log) \in {"get", "add_cookie", "wait"}
          /\ Count(out.log, "screenshot") + Count(out.log, "execute_script")
               + Count(out.log, "page_source") + Count(out.log, "meta_driver") = 0

(***************************************************************************)
(* C7                                                                      *)
(***************************************************************************)
\* C7: the response returned for a SeleniumRequest carries the URL read from
\* driver.current_url as the last driver interaction of the call (the page
\* the browser ended on, not the request's URL), the UTF-8 encoding of the
\* page source read after the wait, screenshot and script steps, the
\* encoding tag 'utf-8', and the request object that was passed in.
C7_Response ==
    Responded =>
        /\ out.result.encoding = "utf-8"
        /\ out.result.request = out.req
        /\ LastOp(out.log) = "current_url"
        /\ out.result.url = out.log[Len(out.log)].val[1]
        /\ out.result.url = OwnUrl(OutReq)
        /\ Count(out.log, "page_source") = 1
        /\ \A i \in Entries(out.log, "page_source") :
              /\ out.result.body = StrEncode(out.log[i].val)
              /\ \A j \in Entries(out.log, "wait") \cup Entries(out.log, "screenshot")
                          \cup Entries(out.log, "execute_script") : j < i
        /\ Utf8Decode(out.result.body) = OwnSource(OutReq)
        /\ \A k \in 1..Len(out.result.body) :
              out.result.body[k] >= 0 /\ out.result.body[k] <= 255

\* a response whose URL is the redirect target and whose body has the
\* script's change and multi-byte characters
C7_Witness ==
    /\ Responded
    /\ out.result.url # OutReq.url
    /\ OutReq.script = Some(ScriptAppend)
    /\ Len(out.result.body) > Len(OwnSource(OutReq))

(***************************************************************************)
(* C8                                                                      *)
(***************************************************************************)
\* the interactions of a complete call on request r, in order
ExpectedOps(r) ==
    <<"get">>
    \o [i \in 1..Len(r.cookies) |-> "add_cookie"]
    \o (IF TruthyCondition(r.wait_until) THEN <<"wait">> ELSE <<>>)
    \o (IF r.screenshot THEN <<"screenshot">> ELSE <<>>)
    \o (IF TruthyStr(r.script) THEN <<"execute_script">> ELSE <<>>)
    \o <<"page_source", "meta_driver", "current_url">>

InOrder(r, log) ==
    /\ IsPrefix(Ops(log), ExpectedOps(r))
    /\ \A i \in 1..Len(log) :
          /\ log[i].op = "get" => log[i].val = <<r.url>>
          /\ log[i].op = "add_cookie" => log[i].val = r.cookies[i - 1]
          /\ log[i].op = "execute_script" => log[i].val = r.script

\* C8: the interactions of one process_request call are, in this order:
\* get(request.url); add_cookie for every request cookie, in the request's
\* order; the wait, if wait_until is truthy; the screenshot, if the flag is
\* set; the script, if one is set; the page source read; the `driver` meta
\* write; the current_url read.  Each step but add_cookie happens at most
\* once, a call that is cut short has made a prefix of them, and a call that
\* returns a response has made them all.
C8_StepOrder ==
    /\ \A c \in DOMAIN calls :
          Active(c) => InOrder(RequestPool[calls[c].p], calls[c].log)
    /\ (Returned /\ OutReq.selenium) => InOrder(OutReq, out.log)
    /\ Responded => Ops(out.log) = ExpectedOps(OutReq)

\* a complete call with two cookies, wait, screenshot and script
C8_Witness ==
    /\ Responded
    /\ Len(OutReq.cookies) = 2 /\ OutReq.screenshot
    /\ Count(out.log, "add_cookie") = 2
    /\ Count(out.log, "wait") + Count(out.log, "screenshot")
         + Count(out.log, "execute_script") = 3

(***************************************************************************)
(* C9                                                                      *)
(***************************************************************************)
\* C9: a response returned by a call during which no other call was in
\* progress carries the URL and the page source of the page its own request
\* navigated to.  (With two calls interleaved the middleware takes no lock,
\* and C9_Witness is a reachable state in which a response carries the other
\* request's page.)
C9_SequentialOwnPage ==
    (Responded /\ ~out.overlap) =>
        /\ out.result.url = OwnUrl(OutReq)
        /\ Utf8Decode(out.result.body) = OwnSource(OutReq)

\* the response to a request for a.test carrying the URL and markup of
\* c.test, where the other caller's request took the browser
C9_Witness ==
    /\ Responded /\ out.overlap
    /\ OutReq.url = UrlA
    /\ out.result.url = UrlC
    /\ SubSeq(Utf8Decode(out.result.body), 1, 3) = <<233, 8364, 128512>>

(***************************************************************************)
(* C10                                                                     *)
(***************************************************************************)
\* the log entries of a failed call whose commands took effect
Effective ==
    IF out.result.kind = "WebDriverException"
    THEN SubSeq(out.log, 1, Len(out.log) - 1) ELSE out.log

\* what the failed call did to the browser is still there
C10_BrowserKept ==
    (Failed /\ mw.driver # NoDriver) =>
        /\ Count(Effective, "get") = 1 => TheDriver.current_url = OwnUrl(OutReq)
        /\ \A i \in Entries(Effective, "add_cookie") :
              [domain |-> OwnUrl(OutReq), name |-> Effective[i].val[1],
               value |-> Effective[i].val[2]] \in TheDriver.cookies

\* C10 as stated: after a failed call the browser keeps the failed call's
\* URL and cookies and the failed request's meta has no `driver` entry
\* written by the call.
C10_Original ==
    /\ C10_BrowserKept
    /\ Failed => out.meta.driver = OutReq.meta.driver

C10_State ==
    /\ C10_BrowserKept
    /\ Failed =>
          IF LastOp(out.log) = "current_url"
          THEN /\ out.result.kind = "WebDriverException"
               /\ out.meta.driver = Some(mw.driver)
          ELSE /\ Count(out.log, "meta_driver") = 0
               /\ out.meta.driver = OutReq.meta.driver

C10_Step ==
    /\ (out' # out /\ out'.result.kind \in Failures) =>
          UNCHANGED <<mw, drivers, launches, files, closed>>
    /\ \A c \in DOMAIN calls, n \in Pool :
          (Failed /\ ProcessRequest(c, n) /\ RequestPool[n].selenium) =>
              /\ mw' = mw
              /\ Len(drivers') = Len(drivers)
              /\ drivers'[mw.driver].live = TheDriver.live
              /\ drivers'[mw.driver].cookies = TheDriver.cookies
              /\ \/ Active(c)' /\ calls'[c].log[1].op = "get"
                 \/ out'.log[1].op = "get"

\* C10 (amended): a process_request call that fails part-way neither quits
\* nor replaces the driver and rolls nothing back: the failing step leaves
\* the middleware and the browser session as they were, the browser keeps
\* the URL navigated to and the cookies added by the failed call, and the
\* next SeleniumRequest is sent to that same driver with its cookies as
\* they were.  The failed request's meta has no `driver` entry written by
\* the call, unless the failure is the driver's error on the final
\* current_url read, which comes after the meta update.
C10_FailureLeavesDriver == [](C10_State) /\ [][C10_Step]_vars

\* a timeout after navigation and a cookie, the session still live
C10_Witness ==
    /\ Failed /\ out.result.kind = "TimeoutException"
    /\ OutReq.url = UrlB
    /\ TheDriver.live
    /\ TheDriver.current_url = UrlC
    /\ [domain |-> UrlC, name |-> "sid", value |-> "1"] \in TheDriver.cookies
    /\ out.meta.driver = None
====
